---- MODULE Spec2Model ----
(***************************************************************************)
(* ClearWave (src/clearwave.py): a Qt window (AudioDenoiser) drives a      *)
(* QThread (AudioProcessor) that opens a duplex sounddevice stream; the    *)
(* stream calls AudioProcessor.run.callback once per block on the audio    *)
(* thread.  Three threads interleave at statement granularity: the GUI     *)
(* thread (slots run to completion), the worker thread (run) and the audio *)
(* thread (callback).                                                      *)
(*                                                                         *)
(* Data abstraction.  A block is known by the number of the input block it *)
(* was computed from and by its peak amplitude in hundredths of full       *)
(* scale.  The values a block takes after gating and crossfading are not   *)
(* computed: its peak is any value of Peaks (0 when everything mixed into  *)
(* it is silent).  Strengths are in thousandths.  The mask arithmetic of   *)
(* the gate is modelled exactly, on integers, in the Gate section.         *)
(***************************************************************************)
EXTENDS Integers, Sequences, FiniteSets

VARIABLES
    inputPresent,    \* sd.query_devices() lists a BlackHole/Soundflower device
    comboData,       \* output_combo.currentData(): NoDevice or a device index
    running,         \* AudioProcessor.running
    noise_reduction, \* AudioProcessor.noise_reduction, thousandths
    output_device,   \* AudioProcessor.output_device
    prev_buffer,     \* AudioProcessor.prev_buffer: NoneBuf, Zeros or block number
    slider,          \* noise_slider.value()
    errQueue,        \* error_occurred emissions queued for the GUI thread
    tpc,             \* position of the worker thread in run()
    nThreads,        \* executions of run() in progress
    nStreams,        \* sd.Stream objects open
    sleepBlocks,     \* block periods begun since the loop last read self.running
    cbpc,            \* position of the audio thread in callback
    inId,            \* number of the block in indata
    inPeak,          \* peak of indata
    ch,              \* loop variable ch of the per-channel loop
    xpeak,           \* peak of audio_data after the crossfade of the first try
    audioPeak,       \* peak of the local audio_data / clean_audio
    outdata,         \* what outdata holds: [src, peak]
    fail1,           \* the first try block raised
    fail2,           \* the second try block raised
    \* history variables (read by no action guard)
    blocks,          \* callbacks started so far
    sessFirst,       \* no callback of the open stream has returned yet
    stopCalled,      \* stop() ran after the last start
    afterStop,       \* callbacks started since stop() returned
    lastStartNoop,   \* the last QThread.start() found the thread in its loop
    used,            \* strengths read at line 45 for the channels of this block
    prevAtEntry,     \* prev_buffer at callback entry (as cleared by stop() since)
    xprev,           \* prev_buffer as read by the crossfade of the first try
    \* SpectralGate arithmetic (Gate section)
    gpc, gMags, gStrength, gMask, gSmooth, gOut

ctlVars == <<inputPresent, comboData, running, noise_reduction, output_device,
             prev_buffer, slider, errQueue>>
thrVars == <<tpc, nThreads, nStreams, sleepBlocks>>
cbVars == <<cbpc, inId, inPeak, ch, xpeak, audioPeak, outdata, fail1, fail2>>
histVars == <<blocks, sessFirst, stopCalled, afterStop, lastStartNoop, used,
              prevAtEntry, xprev>>
gateVars == <<gpc, gMags, gStrength, gMask, gSmooth, gOut>>
vars == <<ctlVars, thrVars, cbVars, histVars, gateVars>>

(***************************************************************************)
(* Bounds of the model.                                                    *)
(***************************************************************************)
MaxBlocks == 3      \* callbacks over a whole run
Channels == 2       \* min(max_input_channels, max_output_channels)
MaxPending == 2     \* queued error notifications the user lets pile up
MaxBins == 6        \* rfft bins of a channel in the Gate section
MaxMag == 1         \* largest bin magnitude in the Gate section
MaxPeak == 100      \* largest peak of an input block, hundredths of full scale

(***************************************************************************)
(* Program constants.                                                      *)
(***************************************************************************)
DefaultStrength == 500      \* self.noise_reduction = 0.5
SliderDefault == 30         \* noise_slider.setValue(30)
SliderMin == 0
SliderMax == 100
buffer_size == 2048
samplerate == 48000
SleepMs == 100              \* sd.sleep(100)
Headroom == 90              \* audio_data / max_val * 0.9
Ndim == 2                   \* indata of an sd.Stream callback is (frames, channels)
NoneBuf == -1               \* self.prev_buffer = None
Zeros == 0                  \* np.zeros_like(audio_data)
Unread == -2                \* the crossfade has not read prev_buffer
KernelLen == 5              \* np.hanning(5)
NoDevice == 0               \* currentData() of an empty combo box: None
SomeDevice == 1

\* the positions the user drags the slider to
SliderValues == {SliderMin, SliderDefault, SliderMax}
\* peak amplitudes of a block: silence or the largest peak
Peaks == {0, MaxPeak}

\* sd.sleep(100) spans at least this many whole block periods
MinPerSleep == (SleepMs * samplerate) \div (1000 * buffer_size)
\* and a block boundary more when the sleep starts just before one
MaxPerSleep == MinPerSleep + 1

\* update_noise_reduction: value / 100.0, in thousandths
StrengthOf(value) == (value * 1000) \div 100

\* line 81-82: audio_data / max_val * 0.9 when max_val > 0
Normalize(peak) == IF peak > 0 THEN (peak * Headroom) \div peak ELSE peak

\* line 87-89: except Exception: outdata[:] = indata
Except1(out, pk) == [src |-> "indata", peak |-> pk]

\* a handler that logs and leaves outdata as the try left it
Except2Keep(out, pk) == out

\* line 134-136: except Exception: outdata[:] = indata
Except2(out, pk) == [src |-> "indata", peak |-> pk]

\* np.convolve accepts one-dimensional arrays only (line 108 passes the
\* whole-block mask, of the dimension of indata)
ConvolveRaises(ndim) == ndim # 1

\* a start() that never finds the thread running
ThreadNeverRunning == FALSE

\* QThread.isRunning(): QThread.start() does nothing when it holds
ThreadIsRunning == tpc # "none"

\* line 266: if not self.audio_processor.running
StartAllowed == ~running

\* sd.sleep(100) returns once the block periods it spans have gone by (when the
\* bound on blocks stops the transport, time still passes)
SleepOver == IF blocks < MaxBlocks THEN sleepBlocks >= MinPerSleep ELSE TRUE

EndpointsOK == inputPresent /\ output_device # NoDevice

(***************************************************************************)
(* Initial state: AudioDenoiser.__init__ has run.  setValue(30) precedes   *)
(* valueChanged.connect and the construction of the AudioProcessor, so the *)
(* processor keeps the strength of its own constructor.                    *)
(***************************************************************************)
GateIdle ==
    /\ gpc = "off" /\ gMags = <<>> /\ gStrength = 0
    /\ gMask = <<>> /\ gSmooth = <<>> /\ gOut = <<>>

CallbackIdle ==
    /\ cbpc = "idle" /\ inId = 0 /\ inPeak = 0 /\ ch = 0 /\ xpeak = 0
    /\ audioPeak = 0 /\ outdata = [src |-> "unset", peak |-> 0]
    /\ fail1 = FALSE /\ fail2 = FALSE

CtlInit ==
    /\ inputPresent \in BOOLEAN
    /\ comboData \in {NoDevice, SomeDevice}
    /\ running = FALSE
    /\ noise_reduction = DefaultStrength
    /\ output_device = NoDevice
    /\ prev_buffer = NoneBuf
    /\ slider = SliderDefault
    /\ errQueue = 0
    /\ tpc = "none" /\ nThreads = 0 /\ nStreams = 0 /\ sleepBlocks = 0
    /\ CallbackIdle
    /\ blocks = 0 /\ sessFirst = FALSE /\ stopCalled = FALSE /\ afterStop = 0
    /\ lastStartNoop = FALSE /\ used = <<>> /\ prevAtEntry = NoneBuf
    /\ xprev = Unread

Init == CtlInit /\ GateIdle

(***************************************************************************)
(* GUI thread: the slots of AudioDenoiser.                                 *)
(***************************************************************************)
\* update_noise_reduction, the slot of noise_slider.valueChanged
UpdateNoiseReduction ==
    /\ \E value \in SliderValues \ {slider} :
          /\ slider' = value
          /\ noise_reduction' = StrengthOf(value)
    /\ UNCHANGED <<inputPresent, comboData, running, output_device, prev_buffer,
                   errQueue, thrVars, cbVars, histVars, gateVars>>

\* toggle_processing, branch "not running": lines 267-270
StartProcessing ==
    /\ StartAllowed
    /\ errQueue < MaxPending
    /\ output_device' = comboData
    /\ running' = TRUE
    /\ IF ThreadIsRunning
          THEN UNCHANGED <<tpc, nThreads>>
          ELSE tpc' = "resolve" /\ nThreads' = nThreads + 1
    /\ lastStartNoop' = (ThreadIsRunning /\ nStreams > 0)
    /\ stopCalled' = FALSE
    /\ afterStop' = 0
    /\ UNCHANGED <<inputPresent, comboData, noise_reduction, prev_buffer, slider,
                   errQueue, nStreams, sleepBlocks, cbVars, blocks, sessFirst,
                   used, prevAtEntry, xprev, gateVars>>

\* toggle_processing, branch "running": AudioProcessor.stop, lines 179-181
StopProcessing ==
    /\ ~StartAllowed
    /\ running' = FALSE
    /\ prev_buffer' = NoneBuf
    /\ stopCalled' = TRUE
    /\ prevAtEntry' = NoneBuf
    /\ UNCHANGED <<inputPresent, comboData, noise_reduction, output_device, slider,
                   errQueue, thrVars, cbVars, blocks, sessFirst, afterStop,
                   lastStartNoop, used, xprev, gateVars>>

\* show_error, the slot of error_occurred (queued: emitted on the worker thread)
ShowError ==
    /\ errQueue > 0
    /\ errQueue' = errQueue - 1
    /\ running' = FALSE
    /\ UNCHANGED <<inputPresent, comboData, noise_reduction, output_device,
                   prev_buffer, slider, thrVars, cbVars, histVars, gateVars>>

(***************************************************************************)
(* Worker thread: AudioProcessor.run.                                      *)
(***************************************************************************)
\* lines 139-152: endpoint resolution raises ValueError
RunResolveFails ==
    /\ tpc = "resolve"
    /\ ~EndpointsOK
    /\ tpc' = "emit"
    /\ UNCHANGED <<ctlVars, nThreads, nStreams, sleepBlocks, cbVars, histVars,
                   gateVars>>

\* lines 154-171: the stream opens (or sd.Stream raises), the loop is entered;
\* self.running is read before the first block period has gone by
RunOpenStream ==
    /\ tpc = "resolve"
    /\ EndpointsOK
    /\ \E ok \in BOOLEAN :
          IF ok
             THEN /\ tpc' = "loop"
                  /\ nStreams' = nStreams + 1
                  /\ sleepBlocks' = MaxPerSleep
                  /\ sessFirst' = TRUE
             ELSE /\ tpc' = "emit"
                  /\ UNCHANGED <<nStreams, sleepBlocks, sessFirst>>
    /\ UNCHANGED <<ctlVars, nThreads, cbVars, blocks, stopCalled, afterStop,
                   lastStartNoop, used, prevAtEntry, xprev, gateVars>>

\* lines 172-173: while self.running: sd.sleep(100)
RunLoopCheck ==
    /\ tpc = "loop"
    /\ SleepOver
    /\ IF running
          THEN tpc' = "loop" /\ sleepBlocks' = 0
          ELSE tpc' = "closing" /\ UNCHANGED sleepBlocks
    /\ UNCHANGED <<ctlVars, nThreads, nStreams, cbVars, histVars, gateVars>>

\* leaving the with block: Stream.__exit__ waits for the callback in progress
\* and closes the stream; a PortAudioError raised there reaches line 175
RunCloseStream ==
    /\ tpc = "closing"
    /\ cbpc = "idle"
    /\ nStreams' = nStreams - 1
    /\ \E ok \in BOOLEAN : tpc' = IF ok THEN "exit" ELSE "emit"
    /\ UNCHANGED <<ctlVars, nThreads, sleepBlocks, cbVars, histVars, gateVars>>

\* line 176: self.error_occurred.emit(str(e))
RunEmit ==
    /\ tpc = "emit"
    /\ errQueue' = errQueue + 1
    /\ tpc' = "setflag"
    /\ UNCHANGED <<inputPresent, comboData, running, noise_reduction,
                   output_device, prev_buffer, slider, nThreads, nStreams,
                   sleepBlocks, cbVars, histVars, gateVars>>

\* line 177: self.running = False
RunSetFlag ==
    /\ tpc = "setflag"
    /\ running' = FALSE
    /\ tpc' = "exit"
    /\ UNCHANGED <<inputPresent, comboData, noise_reduction, output_device,
                   prev_buffer, slider, errQueue, nThreads, nStreams, sleepBlocks,
                   cbVars, histVars, gateVars>>

\* run() has returned; QThread marks the thread finished
ThreadFinish ==
    /\ tpc = "exit"
    /\ tpc' = "none"
    /\ nThreads' = nThreads - 1
    /\ UNCHANGED <<ctlVars, nStreams, sleepBlocks, cbVars, histVars, gateVars>>

(***************************************************************************)
(* Audio thread: AudioProcessor.run.callback, one action per statement     *)
(* group.  Every statement group of the first try may raise (ok = FALSE);  *)
(* the handler of the try is then the next thing to run.  The second try   *)
(* raises at line 108 on every block, so no other raise is drawn for it.   *)
(***************************************************************************)
\* the transport delivers a block: callback is entered (lines 22-26)
CallbackStart ==
    /\ cbpc = "idle"
    /\ tpc = "loop"
    /\ nStreams > 0
    /\ blocks < MaxBlocks
    /\ sleepBlocks < MaxPerSleep
    /\ blocks' = blocks + 1
    /\ inId' = blocks + 1
    /\ inPeak' \in Peaks
    /\ cbpc' = "b1_convert"
    /\ ch' = 0
    /\ xpeak' = 0
    /\ audioPeak' = 0
    /\ outdata' = [src |-> "unset", peak |-> 0]
    /\ fail1' = FALSE
    /\ fail2' = FALSE
    /\ sleepBlocks' = sleepBlocks + 1
    /\ afterStop' = IF stopCalled THEN afterStop + 1 ELSE afterStop
    /\ used' = <<>>
    /\ prevAtEntry' = prev_buffer
    /\ xprev' = Unread
    /\ UNCHANGED <<ctlVars, tpc, nThreads, nStreams, sessFirst, stopCalled,
                   lastStartNoop, gateVars>>

\* an exception inside the first try: lines 87-89, then the second try
Raise1 ==
    /\ fail1' = TRUE
    /\ outdata' = Except1(outdata, inPeak)
    /\ cbpc' = "b2_convert"
    /\ used' = <<>>

\* lines 28-30: audio_data = indata.copy().astype(np.float32)
B1Convert ==
    /\ cbpc = "b1_convert"
    /\ \E ok \in BOOLEAN :
          IF ok
             THEN /\ audioPeak' = inPeak
                  /\ cbpc' = "b1_init"
                  /\ UNCHANGED <<outdata, fail1, used>>
             ELSE Raise1 /\ UNCHANGED audioPeak
    /\ UNCHANGED <<ctlVars, thrVars, inId, inPeak, ch, xpeak, fail2, blocks,
                   sessFirst, stopCalled, afterStop, lastStartNoop, prevAtEntry,
                   xprev, gateVars>>

\* lines 33-34: if self.prev_buffer is None: self.prev_buffer = zeros
B1Init ==
    /\ cbpc = "b1_init"
    /\ \E ok \in BOOLEAN :
          IF ok
             THEN /\ prev_buffer' = IF prev_buffer = NoneBuf THEN Zeros
                                                           ELSE prev_buffer
                  /\ cbpc' = "b1_gate"
                  /\ ch' = 1
                  /\ UNCHANGED <<outdata, fail1, used>>
             ELSE Raise1 /\ UNCHANGED <<prev_buffer, ch>>
    /\ UNCHANGED <<inputPresent, comboData, running, noise_reduction,
                   output_device, slider, errQueue, thrVars, inId, inPeak, xpeak,
                   audioPeak, fail2, blocks, sessFirst, stopCalled, afterStop,
                   lastStartNoop, prevAtEntry, xprev, gateVars>>

\* lines 37-65, one iteration of "for ch": the gate of channel ch reads
\* self.noise_reduction at line 45
B1Gate ==
    /\ cbpc = "b1_gate"
    /\ \E ok \in BOOLEAN :
          IF ok
             THEN /\ used' = Append(used, noise_reduction)
                  /\ ch' = ch + 1
                  /\ cbpc' = IF ch < Channels THEN "b1_gate" ELSE "b1_xfade"
                  /\ UNCHANGED <<outdata, fail1>>
             ELSE Raise1 /\ UNCHANGED ch
    /\ UNCHANGED <<ctlVars, thrVars, inId, inPeak, xpeak, audioPeak, fail2, blocks,
                   sessFirst, stopCalled, afterStop, lastStartNoop, prevAtEntry,
                   xprev, gateVars>>

\* the peaks a crossfaded block can have: silence in and out of silence only
CrossfadePeaks(pk, prev) == IF pk = 0 /\ prev = Zeros THEN {0} ELSE Peaks

\* lines 68-74: the first fade_len rows blended with self.prev_buffer[-fade_len:]
\* (subscripting None, after a concurrent stop(), raises TypeError)
B1Crossfade ==
    /\ cbpc = "b1_xfade"
    /\ \E ok \in BOOLEAN :
          IF ok /\ prev_buffer # NoneBuf
             THEN /\ xprev' = prev_buffer
                  /\ xpeak' \in CrossfadePeaks(inPeak, prev_buffer)
                  /\ audioPeak' = xpeak'
                  /\ cbpc' = "b1_store"
                  /\ used' = <<>>
                  /\ UNCHANGED <<outdata, fail1>>
             ELSE Raise1 /\ UNCHANGED <<xprev, xpeak, audioPeak>>
    /\ UNCHANGED <<ctlVars, thrVars, inId, inPeak, ch, fail2, blocks, sessFirst,
                   stopCalled, afterStop, lastStartNoop, prevAtEntry, gateVars>>

\* line 77: self.prev_buffer = audio_data.copy()
B1Store ==
    /\ cbpc = "b1_store"
    /\ \E ok \in BOOLEAN :
          IF ok
             THEN /\ prev_buffer' = inId
                  /\ cbpc' = "b1_norm"
                  /\ UNCHANGED <<outdata, fail1, used>>
             ELSE Raise1 /\ UNCHANGED prev_buffer
    /\ UNCHANGED <<inputPresent, comboData, running, noise_reduction,
                   output_device, slider, errQueue, thrVars, inId, inPeak, ch,
                   xpeak, audioPeak, fail2, blocks, sessFirst, stopCalled,
                   afterStop, lastStartNoop, prevAtEntry, xprev, gateVars>>

\* lines 80-82: normalize
B1Norm ==
    /\ cbpc = "b1_norm"
    /\ \E ok \in BOOLEAN :
          IF ok
             THEN /\ audioPeak' = Normalize(audioPeak)
                  /\ cbpc' = "b1_out"
                  /\ UNCHANGED <<outdata, fail1, used>>
             ELSE Raise1 /\ UNCHANGED audioPeak
    /\ UNCHANGED <<ctlVars, thrVars, inId, inPeak, ch, xpeak, fail2, blocks,
                   sessFirst, stopCalled, afterStop, lastStartNoop, prevAtEntry,
                   xprev, gateVars>>

\* line 85: outdata[:] = audio_data
B1Out ==
    /\ cbpc = "b1_out"
    /\ \E ok \in BOOLEAN :
          IF ok
             THEN /\ outdata' = [src |-> "block1", peak |-> audioPeak]
                  /\ cbpc' = "b2_convert"
                  /\ UNCHANGED <<fail1, used>>
             ELSE Raise1
    /\ UNCHANGED <<ctlVars, thrVars, inId, inPeak, ch, xpeak, audioPeak, fail2,
                   blocks, sessFirst, stopCalled, afterStop, lastStartNoop,
                   prevAtEntry, xprev, gateVars>>

\* an exception inside the second try: lines 134-136, then callback returns
Raise2 ==
    /\ fail2' = TRUE
    /\ outdata' = Except2(outdata, inPeak)
    /\ cbpc' = "ret"

\* line 93: audio_data = indata.astype(np.float32)
B2Convert ==
    /\ cbpc = "b2_convert"
    /\ audioPeak' = inPeak
    /\ cbpc' = "b2_init"
    /\ UNCHANGED <<ctlVars, thrVars, inId, inPeak, ch, xpeak, outdata, fail1,
                   fail2, histVars, gateVars>>

\* lines 96-97: if self.prev_buffer is None: self.prev_buffer = zeros
B2Init ==
    /\ cbpc = "b2_init"
    /\ prev_buffer' = IF prev_buffer = NoneBuf THEN Zeros ELSE prev_buffer
    /\ cbpc' = "b2_gate"
    /\ UNCHANGED <<inputPresent, comboData, running, noise_reduction,
                   output_device, slider, errQueue, thrVars, inId, inPeak, ch,
                   xpeak, audioPeak, outdata, fail1, fail2, histVars, gateVars>>

\* lines 101-132: the whole-block transform.  np.convolve at line 108 is given
\* the mask of the whole block; were it one-dimensional, lines 113-132 would
\* crossfade, store, normalize and write outdata
B2Gate ==
    /\ cbpc = "b2_gate"
    /\ IF ConvolveRaises(Ndim)
          THEN Raise2 /\ UNCHANGED <<prev_buffer, audioPeak>>
          ELSE /\ prev_buffer # NoneBuf
               /\ \E pk \in CrossfadePeaks(inPeak, prev_buffer) :
                     /\ audioPeak' = Normalize(pk)
                     /\ outdata' = [src |-> "block2", peak |-> Normalize(pk)]
               /\ prev_buffer' = inId
               /\ cbpc' = "ret"
               /\ UNCHANGED fail2
    /\ UNCHANGED <<inputPresent, comboData, running, noise_reduction,
                   output_device, slider, errQueue, thrVars, inId, inPeak, ch,
                   xpeak, fail1, histVars, gateVars>>

\* callback returns: the transport plays outdata, the locals are dropped
CallbackReturn ==
    /\ cbpc = "ret"
    /\ cbpc' = "idle" /\ inId' = 0 /\ inPeak' = 0 /\ ch' = 0 /\ xpeak' = 0
    /\ audioPeak' = 0 /\ outdata' = [src |-> "unset", peak |-> 0]
    /\ fail1' = FALSE /\ fail2' = FALSE
    /\ sessFirst' = FALSE
    /\ used' = <<>>
    /\ prevAtEntry' = NoneBuf
    /\ xprev' = Unread
    /\ UNCHANGED <<ctlVars, thrVars, blocks, stopCalled, afterStop, lastStartNoop,
                   gateVars>>

Next ==
    \/ UpdateNoiseReduction
    \/ StartProcessing
    \/ StopProcessing
    \/ ShowError
    \/ RunResolveFails
    \/ RunOpenStream
    \/ RunLoopCheck
    \/ RunCloseStream
    \/ RunEmit
    \/ RunSetFlag
    \/ ThreadFinish
    \/ CallbackStart
    \/ B1Convert
    \/ B1Init
    \/ B1Gate
    \/ B1Crossfade
    \/ B1Store
    \/ B1Norm
    \/ B1Out
    \/ B2Convert
    \/ B2Init
    \/ B2Gate
    \/ CallbackReturn

Spec == Init /\ [][Next]_vars

(***************************************************************************)
(* Gate section: the mask arithmetic of lines 41-58 for one channel, on    *)
(* integers.  A channel is given by the magnitudes of its rfft bins; the   *)
(* smoothed mask is kept as a numerator over WindowSum, and the gated bins *)
(* as magnitudes over WindowSum.                                           *)
(***************************************************************************)
RECURSIVE SeqSum(_)
SeqSum(q) == IF q = <<>> THEN 0 ELSE Head(q) + SeqSum(Tail(q))

\* cos(n * pi / 2)
CosQuarter(n) == CASE n % 4 = 0 -> 1 [] n % 4 = 2 -> -1 [] OTHER -> 0

\* np.hanning(5)[n] = 0.5 - 0.5 * cos(2 * pi * n / 4), times 2
Hanning(n) == 1 - CosQuarter(n)

\* line 49: smoothing_window = np.hanning(5), times 2
SmoothingWindow == [j \in 1..KernelLen |-> Hanning(j - 1)]

\* line 52: smoothing_window.sum(), times 2
WindowSum == SeqSum(SmoothingWindow)

\* the first len(a) entries of the full convolution instead of the centre ones
SameOffsetFull(vlen) == 0

\* mode='same': the centre len(a) entries of the full convolution
SameOffset(vlen) == (vlen - 1) \div 2

\* np.convolve(a, v, mode='same') for len(a) >= len(v); a is zero outside 1..len(a)
ConvolveSame(a, v) ==
    [i \in 1..Len(a) |->
        SeqSum([j \in 1..Len(v) |->
                  LET k == i + SameOffset(Len(v)) + 1 - j
                  IN  IF k \in 1..Len(a) THEN a[k] * v[j] ELSE 0])]

\* lines 45-46: mask = magnitudes > np.mean(magnitudes) * self.noise_reduction
KeepMask(mags, strength) ==
    [i \in 1..Len(mags) |->
        IF mags[i] * Len(mags) * 1000 > SeqSum(mags) * strength THEN 1 ELSE 0]

\* lines 50-54: the smoothed mask, numerators over WindowSum
SmoothedMask(mask) == ConvolveSame(mask, SmoothingWindow)

\* line 57: freq_data *= smoothed_mask, magnitudes over WindowSum
ApplyMask(mags, smooth) == [i \in 1..Len(mags) |-> mags[i] * smooth[i]]

GateInit ==
    /\ CtlInit
    /\ inputPresent = TRUE
    /\ comboData = SomeDevice
    /\ gpc = "in"
    /\ \E n \in KernelLen..MaxBins : gMags \in [1..n -> 0..MaxMag]
    /\ gStrength \in {DefaultStrength} \cup {StrengthOf(v) : v \in SliderValues}
    /\ gMask = <<>> /\ gSmooth = <<>> /\ gOut = <<>>

\* lines 41-46
GateMask ==
    /\ gpc = "in"
    /\ gMask' = KeepMask(gMags, gStrength)
    /\ gpc' = "masked"
    /\ UNCHANGED <<ctlVars, thrVars, cbVars, histVars, gMags, gStrength, gSmooth,
                   gOut>>

\* lines 49-54
GateSmooth ==
    /\ gpc = "masked"
    /\ gSmooth' = SmoothedMask(gMask)
    /\ gpc' = "smoothed"
    /\ UNCHANGED <<ctlVars, thrVars, cbVars, histVars, gMags, gStrength, gMask,
                   gOut>>

\* lines 57-58
GateApply ==
    /\ gpc = "smoothed"
    /\ gOut' = ApplyMask(gMags, gSmooth)
    /\ gpc' = "out"
    /\ UNCHANGED <<ctlVars, thrVars, cbVars, histVars, gMags, gStrength, gMask,
                   gSmooth>>

GateNext == GateMask \/ GateSmooth \/ GateApply

GateSpec == GateInit /\ [][GateNext]_vars

(***************************************************************************)
(* Properties.                                                             *)
(***************************************************************************)
\* a lazily created prev_buffer is silence: None and zeros are the same state
AsBlock(buf) == IF buf = NoneBuf THEN Zeros ELSE buf

\* C1: when callback returns after any statement of either try block raised,
\* outdata holds the unmodified input block (callback always returns: every
\* raise is taken by the handler of its try).
C1_FailureFallsBackToInput ==
    (cbpc = "ret" /\ (fail1 \/ fail2)) =>
        outdata = [src |-> "indata", peak |-> inPeak]

\* C1 witness: callback returns after the first try raised past the state store
\* (in normalize or in the copy to outdata) on a block that is not silent.
C1_Witness ==
    cbpc = "ret" /\ fail1 /\ prev_buffer = inId /\ inPeak > 0

\* C2: when callback returns after a raise, prev_buffer is what it was on entry.
C2_FailureKeepsState ==
    (cbpc = "ret" /\ (fail1 \/ fail2)) =>
        AsBlock(prev_buffer) = AsBlock(prevAtEntry)

\* C3: the crossfade of the first block of a stream reads an all-zero
\* prev_buffer.
C3_FirstBlockAgainstSilence ==
    (sessFirst /\ xprev # Unread) => xprev = Zeros

\* C4: after stop() returns, at most one more block (one block period) is
\* delivered to callback before the loop has left and the stream is closed.
C4_AtMostOneBlockAfterStop == afterStop <= 1

\* C5: with no virtual-cable input or no output selected, no stream is ever
\* open, no block is processed, and whenever the controller is flagged running
\* a run() that will report the failure, or its queued report, is under way.
C5_StartFailureSurfaces ==
    ~(inputPresent /\ comboData # NoDevice) =>
        /\ nStreams = 0
        /\ blocks = 0
        /\ running => (tpc \in {"resolve", "emit", "setflag"} \/ errQueue > 0)

C7_OneStrengthPerBlock ==
    \A i, j \in 1..Len(used) : used[i] = used[j]

\* C8: whenever the gate is about to read the strength, it is the slider value
\* over 100 and lies in [0, 1].
C8_StrengthIsSliderValue ==
    cbpc = "b1_gate" =>
        /\ noise_reduction = StrengthOf(slider)
        /\ noise_reduction >= 0 /\ noise_reduction <= 1000

\* C9: when callback returns and the first try gated, crossfaded (to a block of
\* peak > 0), normalized and wrote outdata without raising, the peak of outdata
\* is at most the headroom.
C9_DeliveredPeakWithinHeadroom ==
    (cbpc = "ret" /\ ~fail1 /\ xpeak > 0) => outdata.peak <= Headroom

\* the keep-mask is true at every bin
AllPass == \A i \in 1..Len(gMask) : gMask[i] = 1

\* C10 as stated: with strength 0 and an all-true keep-mask, the smoothed
\* multiplier is 1 at every bin and the gated bins equal the input bins.
C10_AllPassMultiplierIsOne ==
    (gpc = "out" /\ gStrength = 0 /\ AllPass) =>
        \A i \in 1..Len(gMags) :
            /\ gSmooth[i] = WindowSum
            /\ gOut[i] = gMags[i] * WindowSum

\* C10 amended: with strength 0 and an all-true keep-mask, the smoothed
\* multiplier is 1 at every interior bin and 3/4 at the first and the last bin,
\* and every gated bin is the input bin times its multiplier.
C10_AllPassEdgesAttenuated ==
    (gpc = "out" /\ gStrength = 0 /\ AllPass) =>
        \A i \in 1..Len(gMags) :
            /\ i \in {1, Len(gMags)} => 4 * gSmooth[i] = 3 * WindowSum
            /\ i \notin {1, Len(gMags)} => gSmooth[i] = WindowSum
            /\ WindowSum > 0
            /\ gOut[i] = gMags[i] * gSmooth[i]

\* C10 witness: the gate has run with strength 0 on a channel of more bins
\* than the kernel has taps, all of them kept.
C10_Witness ==
    gpc = "out" /\ gStrength = 0 /\ AllPass /\ Len(gMags) > KernelLen

====
